---- MODULE Spec2Model ----
(***************************************************************************)
(* Model of gopher_behaviours/delivery.py: the Waiting gate behaviour and  *)
(* the GopherDeliveries goal state machine (set_goal, pre_tick_update,     *)
(* the tick of the assembled tree, post_tock_update).                      *)
(*                                                                         *)
(* Conventions.  Python None is modelled by the empty value of the type:   *)
(* incoming_goal = <<>> stands for None (line 229 treats None and the      *)
(* empty list alike and set_goal never stores an empty list), root.id = 0  *)
(* stands for root = None, old_goal_id = 0 for None, doors = "unset" for   *)
(* the attribute that __init__ never assigns.                              *)
(***************************************************************************)
EXTENDS Integers, Sequences, FiniteSets, TLC

VARIABLES
    state,                \* GopherDeliveries.state (State enum)
    root,                 \* GopherDeliveries.root with the statuses of its nodes
    incoming_goal,        \* GopherDeliveries.incoming_goal
    always_assume_initialised,
    doors,
    locations,            \* GopherDeliveries.locations
    has_a_new_goal,
    feedback_message,
    old_goal_id,
    current_location,     \* planner.current_location
    traversed_locations,  \* blackboard.traversed_locations
    remaining_locations,  \* blackboard.remaining_locations
    dont_wait_for_hoomans,\* flag the planner hands to every Waiting gate
    next_id,              \* next fresh behaviour id
    pc,                   \* position of the cycle loop: "pre", "tick", "post"
    last,                 \* history: the operation of GopherDeliveries that ran last
    accepted_in           \* history: state in which the pending goal was accepted

vars == <<state, root, incoming_goal, always_assume_initialised, doors, locations,
          has_a_new_goal, feedback_message, old_goal_id, current_location,
          traversed_locations, remaining_locations, dont_wait_for_hoomans,
          next_id, pc, last, accepted_in>>

----------------------------------------------------------------------------
(* Bound: the number of roots assembled in a run *)

MaxRoots == 2

(* Inputs *)

KnownLocations == {"L1", "L2"}
UnknownLocations == {"X"}
AllLocations == KnownLocations \cup UnknownLocations
Worlds == {"w1"}

Range(s) == {s[i] : i \in 1..Len(s)}

LocationOrder == [l \in AllLocations |-> IF l = "L1" THEN 1 ELSE IF l = "L2" THEN 2 ELSE 3]

\* goals: lists of unique locations, in one order, of which every known
\* location is taken before an unknown one
GoalsOfLen(n) ==
    {s \in [1..n -> AllLocations] :
        /\ \A i, j \in 1..n : i < j => LocationOrder[s[i]] < LocationOrder[s[j]]
        /\ \A i \in 1..n : s[i] \in UnknownLocations => \A j \in 1..(i-1) : s[j] = "L1"}

NonEmptyGoals == UNION {GoalsOfLen(n) : n \in 1..Cardinality(AllLocations)}

GoalInputs == {<<>>} \cup NonEmptyGoals

\* the doors on the way of a goal
DoorsFor(locs) == IF "L2" \in Range(locs) THEN "d1" ELSE "d0"

----------------------------------------------------------------------------
(* State enum, lines 79-89 *)

IDLE == "IDLE"
WAITING == "WAITING"
TRAVELLING == "TRAVELLING"
INVALID == "INVALID"

State == {IDLE, WAITING, TRAVELLING, INVALID}

(* py_trees.Status *)
Status == {"INVALID", "RUNNING", "SUCCESS", "FAILURE"}

(* gopher_std_msgs.DeliveryErrorCodes used by set_goal *)
ErrorCodes == {"SUCCESS", "GOAL_EMPTY_NOTHING_TO_DO", "FUBAR", "ALREADY_ASSIGNED_A_GOAL"}

----------------------------------------------------------------------------
(* Feedback messages, as records rather than formatted strings *)

Feedback(kind, from, to, rem) == [kind |-> kind, from |-> from, to |-> to, rem |-> rem]

FbEmpty == Feedback("empty", "", "", <<>>)
FbIdling == Feedback("idling", "", "", <<>>)
FbRecovery == Feedback("recovery", "", "", <<>>)
FbMovingTo(to) == Feedback("moving to", "", to, <<>>)
FbMovingFromTo(from, to) == Feedback("moving from to", from, to, <<>>)
FbHanging(loc) == Feedback("hanging around", "", loc, <<>>)
FbRemaining(rem) == Feedback("remaining", "", "", rem)

----------------------------------------------------------------------------
(* The planner (external collaborator) *)

check_locations(locs) == Range(locs) \subseteq KnownLocations

Step(kind, loc, skip) == [kind |-> kind, loc |-> loc, skip |-> skip]

RECURSIVE Legs(_, _)
Legs(locs, skip) ==
    IF locs = <<>> THEN <<>>
    ELSE <<Step("move", Head(locs), FALSE), Step("wait", Head(locs), skip)>>
         \o Legs(Tail(locs), skip)

create_tree(current_world, locs, include_parking_behaviours, drs, skip) ==
    IF ~check_locations(locs) THEN <<>>
    ELSE (IF include_parking_behaviours THEN <<Step("park", "", FALSE)>> ELSE <<>>)
         \o Legs(locs, skip)

----------------------------------------------------------------------------
(* The root: None, or the tree assembled at lines 246-258 *)

NoRoot ==
    [id |-> 0, steps |-> <<>>, oneshot |-> TRUE, goal |-> <<>>, trav0 |-> <<>>,
     status |-> "INVALID",
     cancel_pressed |-> FALSE, cancel_status |-> "INVALID",
     selector_status |-> "INVALID",
     delivery_status |-> "INVALID", idx |-> 0, go_requested |-> {},
     gate_feedback |-> FbEmpty,
     failed_recovery_status |-> "INVALID"]

NoLast ==
    [op |-> "init", code |-> "", locations |-> <<>>, consulted |-> FALSE,
     accepted |-> "none",
     ticked |-> FALSE, branch |-> "none", planned |-> FALSE, parking |-> FALSE]

Init ==
    /\ state = IDLE
    /\ root = NoRoot
    /\ incoming_goal = <<>>
    /\ always_assume_initialised = FALSE
    /\ doors = "unset"
    /\ locations = <<>>
    /\ has_a_new_goal = FALSE
    /\ feedback_message = FbEmpty
    /\ old_goal_id = 0
    /\ current_location = "none"
    /\ traversed_locations = <<>>
    /\ remaining_locations = <<>>
    /\ dont_wait_for_hoomans \in BOOLEAN
    /\ next_id = 1
    /\ pc = "pre"
    /\ last = NoLast
    /\ accepted_in = "none"

----------------------------------------------------------------------------
(* Waiting, lines 96-142 *)

\* mutant of Waiting_update: the latch is not read
Waiting_update_ignores_latch(dont_wait, go_requested) ==
    IF dont_wait THEN "SUCCESS" ELSE "RUNNING"

\* Waiting.update, lines 126-128: the status it returns
Waiting_update(dont_wait, go_requested) ==
    LET status == IF dont_wait THEN "SUCCESS" ELSE "RUNNING"
    IN  IF status = "RUNNING" /\ go_requested THEN "SUCCESS" ELSE status

\* mutant of go_button_latch: the latch is set whatever the status
go_button_latch_always(status) == TRUE

\* Waiting._go_button_callback, line 138: the new value of go_requested
go_button_latch(status) == IF status = "RUNNING" THEN TRUE ELSE FALSE

\* Behaviour.status of the child i of the delivery sequence
ChildStatus(r, i) ==
    IF r.delivery_status = "RUNNING"
    THEN (IF i < r.idx THEN "SUCCESS" ELSE IF i = r.idx THEN "RUNNING" ELSE "INVALID")
    ELSE IF r.delivery_status = "SUCCESS" THEN "SUCCESS"
    ELSE IF r.delivery_status = "FAILURE"
    THEN (IF i < r.idx THEN "SUCCESS" ELSE IF i = r.idx THEN "FAILURE" ELSE "INVALID")
    ELSE "INVALID"

Gates(r) == {i \in 1..Len(r.steps) : r.steps[i].kind = "wait"}

----------------------------------------------------------------------------
(* GopherDeliveries.set_goal, lines 195-219 *)

\* mutants of set_goal_code: a TRAVELLING state handled like WAITING; no test
\* for an empty list; no validation in IDLE
set_goal_code_busy_accepts(st, locs) ==
    IF locs = <<>> THEN "GOAL_EMPTY_NOTHING_TO_DO"
    ELSE IF st = IDLE
         THEN (IF check_locations(locs) THEN "SUCCESS" ELSE "FUBAR")
    ELSE "SUCCESS"

set_goal_code_no_empty_test(st, locs) ==
    IF st = IDLE
    THEN (IF check_locations(locs) THEN "SUCCESS" ELSE "FUBAR")
    ELSE IF st = WAITING THEN "SUCCESS"
    ELSE "ALREADY_ASSIGNED_A_GOAL"

set_goal_code_no_validation(st, locs) ==
    IF locs = <<>> THEN "GOAL_EMPTY_NOTHING_TO_DO"
    ELSE IF st = IDLE \/ st = WAITING THEN "SUCCESS"
    ELSE "ALREADY_ASSIGNED_A_GOAL"

\* the error code set_goal returns
set_goal_code(st, locs) ==
    IF locs = <<>> THEN "GOAL_EMPTY_NOTHING_TO_DO"
    ELSE IF st = IDLE
         THEN (IF check_locations(locs) THEN "SUCCESS" ELSE "FUBAR")
    ELSE IF st = WAITING THEN "SUCCESS"
    ELSE "ALREADY_ASSIGNED_A_GOAL"

\* whether set_goal calls planner.check_locations (line 206)
set_goal_consults(st, locs) == locs # <<>> /\ st = IDLE

\* mutant of set_goal: an accepted goal also resets the state to IDLE
set_goal_resets_state(locs, aai, drs) ==
    LET code == set_goal_code(state, locs)
    IN  /\ IF code = "SUCCESS"
           THEN /\ incoming_goal' = locs
                /\ always_assume_initialised' = aai
                /\ doors' = drs
                /\ accepted_in' = state
                /\ state' = IDLE
           ELSE UNCHANGED <<incoming_goal, always_assume_initialised, doors,
                            accepted_in, state>>
        /\ last' = [NoLast EXCEPT !.op = "set_goal", !.code = code, !.locations = locs,
                                  !.consulted = set_goal_consults(state, locs)]
        /\ UNCHANGED <<root, locations, has_a_new_goal, feedback_message,
                       old_goal_id, current_location, traversed_locations,
                       remaining_locations, dont_wait_for_hoomans, next_id, pc>>

set_goal(locs, aai, drs) ==
    LET code == set_goal_code(state, locs)
    IN  /\ IF code = "SUCCESS"
           THEN /\ incoming_goal' = locs
                /\ always_assume_initialised' = aai
                /\ doors' = drs
                /\ accepted_in' = state
           ELSE UNCHANGED <<incoming_goal, always_assume_initialised, doors, accepted_in>>
        /\ last' = [NoLast EXCEPT !.op = "set_goal", !.code = code, !.locations = locs,
                                  !.consulted = set_goal_consults(state, locs)]
        /\ UNCHANGED <<state, root, locations, has_a_new_goal, feedback_message,
                       old_goal_id, current_location, traversed_locations,
                       remaining_locations, dont_wait_for_hoomans, next_id, pc>>

----------------------------------------------------------------------------
(* GopherDeliveries.pre_tick_update, lines 221-273 *)

\* mutant of include_parking: parking unless both initialised and a root
include_parking_either(aai, r) == IF aai /\ r.id # 0 THEN FALSE ELSE TRUE

\* line 233
include_parking(aai, r) == IF aai \/ r.id # 0 THEN FALSE ELSE TRUE

\* mutant of reset_traversed: the traversed locations are never reset
reset_traversed_never(r, trav) == trav

\* line 244
reset_traversed(r, trav) == IF r.id = 0 THEN <<>> ELSE trav

\* mutant of AssembleRoot: the delivery sequence is a plain Sequence
AssembleRoot_plain_sequence(id, children, goal, trav) ==
    [NoRoot EXCEPT !.id = id, !.steps = children, !.oneshot = FALSE,
                   !.goal = goal, !.trav0 = trav]

\* lines 246-258: cancel sequence, oneshot delivery sequence, delivery selector, root
AssembleRoot(id, children, goal, trav) ==
    [NoRoot EXCEPT !.id = id, !.steps = children, !.oneshot = TRUE,
                   !.goal = goal, !.trav0 = trav]

\* mutant of consume_goal: the pending goal is kept
consume_goal_keeps(goal) == goal

\* line 263: self.incoming_goal = None
consume_goal(goal) == <<>>

\* mutant of root_succeeded: a root that ended in FAILURE counts too
root_ended(r) == r.id # 0 /\ r.status \in {"SUCCESS", "FAILURE"}

\* line 264: self.root is not None and self.root.status == SUCCESS
root_succeeded(r) == r.id # 0 /\ r.status = "SUCCESS"

\* succeeded_on_last_tick, lines 281-287
succeeded_on_last_tick == IF root.id # 0 THEN root.status = "SUCCESS" ELSE FALSE

\* is_executing, lines 275-279
is_executing == (state = WAITING) \/ (state = TRAVELLING)

\* lines 229-261 and 264-273: everything but the assignment of line 263
pre_tick_plan(current_world) ==
    IF incoming_goal # <<>>
    THEN LET include_parking_behaviours ==
                 include_parking(always_assume_initialised, root)
             children == create_tree(current_world, incoming_goal,
                                     include_parking_behaviours, doors,
                                     dont_wait_for_hoomans)
         IN  /\ IF children = <<>>
                THEN UNCHANGED <<root, old_goal_id, traversed_locations,
                                 remaining_locations, locations, has_a_new_goal,
                                 next_id>>
                ELSE /\ next_id <= MaxRoots
                     /\ old_goal_id' = root.id
                     /\ traversed_locations' = reset_traversed(root, traversed_locations)
                     /\ root' = AssembleRoot(next_id, children, incoming_goal,
                                             reset_traversed(root, traversed_locations))
                     /\ remaining_locations' = incoming_goal
                     /\ locations' = incoming_goal
                     /\ has_a_new_goal' = TRUE
                     /\ next_id' = next_id + 1
             /\ last' = [NoLast EXCEPT !.op = "pre_tick_update",
                                       !.consulted = TRUE,
                                       !.accepted = accepted_in,
                                       !.parking = include_parking_behaviours,
                                       !.planned = (children # <<>>)]
             /\ UNCHANGED current_location
    ELSE /\ IF root_succeeded(root)
            THEN /\ current_location' =
                       IF Len(traversed_locations) # 0
                       THEN traversed_locations[Len(traversed_locations)]
                       ELSE "none"
                 /\ old_goal_id' = root.id
                 /\ root' = NoRoot
                 /\ has_a_new_goal' = TRUE
            ELSE /\ has_a_new_goal' = FALSE
                 /\ UNCHANGED <<current_location, old_goal_id, root>>
         /\ last' = [NoLast EXCEPT !.op = "pre_tick_update"]
         /\ UNCHANGED <<traversed_locations, remaining_locations, locations, next_id>>

pre_tick_update(current_world) ==
    /\ pc = "pre"
    /\ pc' = "tick"
    /\ pre_tick_plan(current_world)
    /\ IF incoming_goal # <<>>
       THEN /\ incoming_goal' = consume_goal(incoming_goal)
            /\ accepted_in' = "none"
       ELSE UNCHANGED <<incoming_goal, accepted_in>>
    /\ UNCHANGED <<state, always_assume_initialised, doors, feedback_message,
                   dont_wait_for_hoomans>>

\* pre_tick_update up to line 261, when set_goal may run before line 263
pre_tick_update_begin(current_world) ==
    /\ pc = "pre"
    /\ pre_tick_plan(current_world)
    /\ IF incoming_goal # <<>>
       THEN /\ pc' = "clear"
            /\ accepted_in' = "none"
            /\ UNCHANGED incoming_goal
       ELSE /\ pc' = "tick"
            /\ UNCHANGED <<incoming_goal, accepted_in>>
    /\ UNCHANGED <<state, always_assume_initialised, doors, feedback_message,
                   dont_wait_for_hoomans>>

\* line 263 of that pre_tick_update
pre_tick_update_end ==
    /\ pc = "clear"
    /\ pc' = "tick"
    /\ incoming_goal' = consume_goal(incoming_goal)
    /\ accepted_in' = "none"
    /\ UNCHANGED <<state, root, always_assume_initialised, doors, locations,
                   has_a_new_goal, feedback_message, old_goal_id, current_location,
                   traversed_locations, remaining_locations, dont_wait_for_hoomans,
                   next_id, last>>

----------------------------------------------------------------------------
(* The tick of the tree between pre_tick_update and post_tock_update.      *)
(* Selector, Sequence and OneshotSequence are py_trees composites, the     *)
(* travel, parking and recovery leaves are collaborators: their outcome is *)
(* a nondeterministic choice.                                              *)

\* a completed leg: the head of remaining moves to the tail of traversed
CompleteLeg(c) ==
    IF c.rem = <<>> THEN c
    ELSE [c EXCEPT !.rem = Tail(c.rem), !.trav = Append(c.trav, Head(c.rem))]

\* a travel, parking or recovery leaf is an action that takes at least one
\* cycle: its first tick starts it (RUNNING), a later tick reports its end
LeafOutcomes(status) ==
    IF status = "RUNNING" THEN {"RUNNING", "SUCCESS", "FAILURE"} ELSE {"RUNNING"}

\* Sequence.tick from child i on; running tells whether child i was RUNNING
\* before this tick; c carries the blackboard lists, the set of children
\* ticked and the feedback of the gate updated last
RECURSIVE RunSequence(_, _, _, _, _)
RunSequence(steps, go, i, running, c) ==
    IF i > Len(steps)
    THEN {[status |-> "SUCCESS", idx |-> Len(steps), c |-> c]}
    ELSE LET t == [c EXCEPT !.ticked = @ \cup {i}]
         IN  IF steps[i].kind = "wait"
             THEN LET g == [t EXCEPT !.fb = FbRemaining(c.rem)]
                  IN  IF Waiting_update(steps[i].skip, i \in go) = "SUCCESS"
                      THEN RunSequence(steps, go, i + 1, FALSE, g)
                      ELSE {[status |-> "RUNNING", idx |-> i, c |-> g]}
             ELSE UNION {
                      IF o = "SUCCESS"
                      THEN RunSequence(steps, go, i + 1, FALSE,
                                       IF steps[i].kind = "move" THEN CompleteLeg(t) ELSE t)
                      ELSE {[status |-> o, idx |-> i, c |-> t]}
                      : o \in LeafOutcomes(IF running THEN "RUNNING" ELSE "INVALID")}

\* OneshotSequence.tick: a final status is retained, the children are not ticked
TickDelivery(r, c) ==
    IF r.oneshot /\ r.delivery_status \in {"SUCCESS", "FAILURE"}
    THEN {[status |-> r.delivery_status, idx |-> r.idx, c |-> c]}
    ELSE IF r.delivery_status = "RUNNING"
    THEN RunSequence(r.steps, r.go_requested, r.idx, TRUE, c)
    ELSE RunSequence(r.steps, r.go_requested, 1, FALSE, c)

\* Selector: the lower priority branch is stopped when a higher one takes over
StopDelivery(r) ==
    [r EXCEPT !.selector_status = "INVALID",
              !.failed_recovery_status = "INVALID",
              !.delivery_status =
                  IF r.oneshot /\ @ \in {"SUCCESS", "FAILURE"} THEN @ ELSE "INVALID"]

\* the cancel sequence: [CheckButtonPressed (latched), HomebaseRecovery]
CancelOutcomes(r) ==
    IF r.cancel_status = "RUNNING" THEN LeafOutcomes("RUNNING")
    ELSE IF r.cancel_pressed THEN LeafOutcomes("INVALID")
    ELSE {"FAILURE"}

\* the delivery selector: [delivery sequence, HomebaseRecovery]
DeliverOrRecover(r, c) ==
    UNION {
        IF d.status \in {"RUNNING", "SUCCESS"}
        THEN {[root |-> [r EXCEPT !.delivery_status = d.status, !.idx = d.idx,
                                  !.gate_feedback = d.c.fb,
                                  !.failed_recovery_status = "INVALID",
                                  !.selector_status = d.status,
                                  !.status = d.status],
               c |-> d.c, branch |-> "delivery"]}
        ELSE {[root |-> [r EXCEPT !.delivery_status = d.status, !.idx = d.idx,
                                  !.gate_feedback = d.c.fb,
                                  !.failed_recovery_status = o,
                                  !.selector_status = o,
                                  !.status = o],
               c |-> d.c, branch |-> "recovery"]
              : o \in LeafOutcomes(r.failed_recovery_status)}
        : d \in TickDelivery(r, c)}

\* the root selector: [cancel sequence, delivery selector]
TickRoot(r, c) ==
    UNION {
        IF o \in {"RUNNING", "SUCCESS"}
        THEN {[root |-> [StopDelivery(r) EXCEPT !.cancel_status = o, !.status = o],
               c |-> c, branch |-> "cancel"]}
        ELSE DeliverOrRecover([r EXCEPT !.cancel_status = o], c)
        : o \in CancelOutcomes(r)}

Tick ==
    /\ pc = "tick"
    /\ pc' = "post"
    /\ IF root.id = 0
       THEN /\ UNCHANGED <<root, traversed_locations, remaining_locations>>
            /\ last' = [NoLast EXCEPT !.op = "tick"]
       ELSE \E res \in TickRoot(root, [rem |-> remaining_locations,
                                       trav |-> traversed_locations,
                                       ticked |-> {}, fb |-> root.gate_feedback]) :
                /\ root' = res.root
                /\ remaining_locations' = res.c.rem
                /\ traversed_locations' = res.c.trav
                /\ last' = [NoLast EXCEPT !.op = "tick", !.ticked = (res.c.ticked # {}),
                                          !.branch = res.branch]
    /\ UNCHANGED <<state, incoming_goal, always_assume_initialised, doors, locations,
                   has_a_new_goal, feedback_message, old_goal_id, current_location,
                   dont_wait_for_hoomans, next_id, accepted_in>>

----------------------------------------------------------------------------
(* GopherDeliveries.post_tock_update, lines 289-309 *)

\* mutant of classify: the status of the delivery sequence (line 294) is not
\* tested, its current child alone decides
classify_by_current_child(r, st, fb, trav, rem) ==
    IF r.id # 0 /\ r.status = "RUNNING"
    THEN IF r.idx > 0 /\ r.steps[r.idx].kind = "move"
         THEN [state |-> TRAVELLING,
               feedback_message |->
                   IF rem = <<>> THEN fb
                   ELSE IF trav # <<>>
                   THEN FbMovingFromTo(trav[Len(trav)], rem[1])
                   ELSE FbMovingTo(rem[1])]
         ELSE IF r.idx > 0 /\ r.steps[r.idx].kind = "wait"
         THEN [state |-> WAITING, feedback_message |-> r.gate_feedback]
         ELSE [state |-> WAITING, feedback_message |-> FbRecovery]
    ELSE [state |-> IDLE, feedback_message |-> FbIdling]

\* mutant of classify: no root is classified like a recovery
classify_null_root_waiting(r, st, fb, trav, rem) ==
    IF r.id = 0 \/ (r.status = "RUNNING" /\ r.delivery_status # "RUNNING")
    THEN [state |-> WAITING, feedback_message |-> FbRecovery]
    ELSE IF r.status = "RUNNING"
    THEN IF r.steps[r.idx].kind = "move"
         THEN [state |-> TRAVELLING,
               feedback_message |->
                   IF rem = <<>> THEN fb
                   ELSE IF trav # <<>>
                   THEN FbMovingFromTo(trav[Len(trav)], rem[1])
                   ELSE FbMovingTo(rem[1])]
         ELSE IF r.steps[r.idx].kind = "wait"
         THEN [state |-> WAITING, feedback_message |-> r.gate_feedback]
         ELSE [state |-> st, feedback_message |-> fb]
    ELSE [state |-> IDLE, feedback_message |-> FbIdling]

\* the state and the feedback message it leaves
classify(r, st, fb, trav, rem) ==
    IF r.id # 0 /\ r.status = "RUNNING"
    THEN IF r.delivery_status = "RUNNING"
         THEN IF r.steps[r.idx].kind = "move"
              THEN [state |-> TRAVELLING,
                    feedback_message |->
                        IF rem = <<>> THEN fb  \* IndexError after line 296
                        ELSE IF trav # <<>>
                        THEN FbMovingFromTo(trav[Len(trav)], rem[1])
                        ELSE FbMovingTo(rem[1])]
              ELSE IF r.steps[r.idx].kind = "wait"
              THEN [state |-> WAITING, feedback_message |-> r.gate_feedback]
              ELSE [state |-> st, feedback_message |-> fb]
         ELSE [state |-> WAITING, feedback_message |-> FbRecovery]
    ELSE [state |-> IDLE, feedback_message |-> FbIdling]

post_tock_update ==
    /\ pc = "post"
    /\ pc' = "pre"
    /\ LET cl == classify(root, state, feedback_message, traversed_locations,
                          remaining_locations)
       IN  /\ state' = cl.state
           /\ feedback_message' = cl.feedback_message
    /\ last' = [NoLast EXCEPT !.op = "post_tock_update"]
    /\ UNCHANGED <<root, incoming_goal, always_assume_initialised, doors, locations,
                   has_a_new_goal, old_goal_id, current_location, traversed_locations,
                   remaining_locations, dont_wait_for_hoomans, next_id, accepted_in>>

----------------------------------------------------------------------------
(* The asynchronous signals *)

\* the go button: every gate of the tree runs _go_button_callback (lines 137-142)
go_button_callback ==
    /\ root.id # 0
    /\ root' = [root EXCEPT !.go_requested =
                   {i \in Gates(root) : go_button_latch(ChildStatus(root, i))}]
    /\ UNCHANGED <<state, incoming_goal, always_assume_initialised, doors, locations,
                   has_a_new_goal, feedback_message, old_goal_id, current_location,
                   traversed_locations, remaining_locations, dont_wait_for_hoomans,
                   next_id, pc, last, accepted_in>>

\* the stop button: latched by the CheckButtonPressed of the tree (lines 247-249)
cancel_button_callback ==
    /\ root.id # 0
    /\ root' = [root EXCEPT !.cancel_pressed = TRUE]
    /\ UNCHANGED <<state, incoming_goal, always_assume_initialised, doors, locations,
                   has_a_new_goal, feedback_message, old_goal_id, current_location,
                   traversed_locations, remaining_locations, dont_wait_for_hoomans,
                   next_id, pc, last, accepted_in>>

----------------------------------------------------------------------------

SetGoal == \E locs \in GoalInputs, aai \in BOOLEAN :
               set_goal(locs, aai, DoorsFor(locs))

PreTick == \E w \in Worlds : pre_tick_update(w)

Next ==
    \/ SetGoal
    \/ PreTick
    \/ Tick
    \/ post_tock_update
    \/ go_button_callback
    \/ cancel_button_callback

Spec == Init /\ [][Next]_vars

\* the same with set_goal free to run inside pre_tick_update, before line 263
PreTickBegin == \E w \in Worlds : pre_tick_update_begin(w)

NextInterleaved ==
    \/ SetGoal
    \/ PreTickBegin
    \/ pre_tick_update_end
    \/ Tick
    \/ post_tock_update
    \/ go_button_callback
    \/ cancel_button_callback

SpecInterleaved == Init /\ [][NextInterleaved]_vars

----------------------------------------------------------------------------
(* The steps of the cycle *)

IsPreTick == pc = "pre" /\ pc' = "tick"
IsTick == pc = "tick" /\ pc' = "post"
IsPostTock == pc = "post" /\ pc' = "pre"
IsSetGoal == pc' = pc /\ root' = root /\ last'.op = "set_goal"

----------------------------------------------------------------------------
(* Properties of set_goal *)

\* C1: in IDLE and in WAITING a non-empty list that check_locations refuses
\* is rejected with the invalid-locations code (FUBAR, "Received invalid
\* locations") and incoming_goal, always_assume_initialised and doors are
\* left unchanged.
C1_InvalidLocationsRejected ==
    [][(/\ IsSetGoal
        /\ state \in {IDLE, WAITING}
        /\ last'.locations # <<>>
        /\ ~check_locations(last'.locations)) =>
           /\ last'.code = "FUBAR"
           /\ UNCHANGED <<incoming_goal, always_assume_initialised, doors>>]_vars

\* C2: a non-empty list submitted in TRAVELLING is answered
\* ALREADY_ASSIGNED_A_GOAL; root, state, incoming_goal,
\* always_assume_initialised and doors are unchanged.
C2_TravellingRejects ==
    [][(IsSetGoal /\ state = TRAVELLING /\ last'.locations # <<>>) =>
           /\ last'.code = "ALREADY_ASSIGNED_A_GOAL"
           /\ UNCHANGED <<root, state, incoming_goal,
                          always_assume_initialised, doors>>]_vars

C2_Witness ==
    /\ last.op = "set_goal"
    /\ last.locations # <<>>
    /\ last.code = "ALREADY_ASSIGNED_A_GOAL"
    /\ state = TRAVELLING
    /\ root.id # 0

\* C3: an empty list is answered GOAL_EMPTY_NOTHING_TO_DO in every state,
\* the planner is not consulted, and incoming_goal, root and state are
\* unchanged.
C3_EmptyGoalRejected ==
    [][(IsSetGoal /\ last'.locations = <<>>) =>
           /\ last'.code = "GOAL_EMPTY_NOTHING_TO_DO"
           /\ ~last'.consulted
           /\ UNCHANGED <<incoming_goal, root, state>>]_vars

C3_Witness ==
    /\ last.op = "set_goal"
    /\ last.locations = <<>>
    /\ last.code = "GOAL_EMPTY_NOTHING_TO_DO"
    /\ state = WAITING
    /\ incoming_goal # <<>>
    /\ root.id # 0

\* C4: a valid non-empty list submitted in IDLE is answered SUCCESS and
\* becomes incoming_goal; the next pre_tick_update leaves a root and clears
\* incoming_goal.
C4_IdleGoalAssembled ==
    [][/\ (/\ IsSetGoal
           /\ state = IDLE
           /\ last'.locations # <<>>
           /\ check_locations(last'.locations)) =>
              /\ last'.code = "SUCCESS"
              /\ incoming_goal' = last'.locations
              /\ accepted_in' = IDLE
       /\ (IsPreTick /\ incoming_goal # <<>> /\ accepted_in = IDLE) =>
              /\ root'.id # 0
              /\ incoming_goal' = <<>>]_vars

C4_Witness ==
    /\ last.op = "pre_tick_update"
    /\ last.accepted = IDLE
    /\ last.planned
    /\ root.id # 0
    /\ old_goal_id = 0
    /\ incoming_goal = <<>>

----------------------------------------------------------------------------
(* Properties of pre_tick_update and of the assembled tree *)

\* C5: a goal accepted in WAITING while the tree of the previous goal is
\* still running is assembled by the next pre_tick_update: the root is a new
\* one, its delivery steps are the planner's decomposition of that goal and
\* remaining_locations is that goal.
C5_PreemptionReplacesTree ==
    [][(/\ IsPreTick
        /\ incoming_goal # <<>>
        /\ accepted_in = WAITING
        /\ root.id # 0
        /\ root.status = "RUNNING"
        /\ root.delivery_status = "RUNNING") =>
           /\ root'.id \notin {0, root.id}
           /\ root'.goal = incoming_goal
           /\ \E w \in Worlds :
                  root'.steps = create_tree(w, incoming_goal,
                                            include_parking(always_assume_initialised, root),
                                            doors, dont_wait_for_hoomans)
           /\ root'.delivery_status = "INVALID"
           /\ remaining_locations' = incoming_goal]_vars

\* C6 as stated: whenever a tree exists, set(remaining) \cup set(traversed)
\* is the set of the locations of the goal it was assembled for.
C6_UnionIsGoal ==
    root.id # 0 =>
        Range(remaining_locations) \cup Range(traversed_locations) = Range(root.goal)

\* C6 as amended: the locations traversed since the assembly followed by the
\* remaining ones are the goal, in its order; what was traversed before the
\* assembly is kept in front, and is empty when no root existed at assembly.
C6_LegsFollowGoal ==
    root.id # 0 =>
        /\ Len(traversed_locations) >= Len(root.trav0)
        /\ SubSeq(traversed_locations, 1, Len(root.trav0)) = root.trav0
        /\ SubSeq(traversed_locations, Len(root.trav0) + 1, Len(traversed_locations))
               \o remaining_locations = root.goal
        /\ (old_goal_id = 0 => root.trav0 = <<>>)
        /\ Range(remaining_locations) \cup Range(traversed_locations)
               = Range(root.goal) \cup Range(root.trav0)

C6_Witness ==
    /\ root.id # 0
    /\ old_goal_id # 0
    /\ root.trav0 # <<>>
    /\ Len(traversed_locations) > Len(root.trav0)
    /\ ~(Range(root.trav0) \subseteq Range(root.goal))

\* C7: once the delivery sequence of a root is SUCCESS or FAILURE, every
\* step that keeps the root keeps that status, no tick ticks a delivery
\* step, and after a FAILURE the ticks run a recovery.
C7_Oneshot ==
    [][(/\ root.id # 0
        /\ root.delivery_status \in {"SUCCESS", "FAILURE"}
        /\ root'.id = root.id) =>
           /\ root'.delivery_status = root.delivery_status
           /\ IsTick =>
                  /\ ~last'.ticked
                  /\ root.delivery_status = "FAILURE" =>
                         last'.branch \in {"recovery", "cancel"}]_vars

C7_Witness ==
    /\ last.op = "tick"
    /\ ~last.ticked
    /\ last.branch = "recovery"
    /\ root.delivery_status = "FAILURE"
    /\ root.failed_recovery_status = "RUNNING"

\* C8: a tick with the cancel button latched while the delivery sequence is
\* RUNNING selects the cancel branch and ticks no delivery step, and the
\* post_tock_update of that cycle leaves WAITING with the recovery feedback.
C8_CancelWithinTheCycle ==
    [][/\ (/\ IsTick
           /\ root.id # 0
           /\ root.cancel_pressed
           /\ root.delivery_status = "RUNNING") =>
              /\ last'.branch = "cancel"
              /\ ~last'.ticked
              /\ root'.status = "RUNNING"
              /\ root'.cancel_status = "RUNNING"
              /\ root'.delivery_status # "RUNNING"
       /\ (/\ IsPostTock
           /\ root.status = "RUNNING"
           /\ root.cancel_status = "RUNNING") =>
              /\ state' = WAITING
              /\ feedback_message' = FbRecovery]_vars

C8_Witness ==
    /\ last.op = "post_tock_update"
    /\ root.cancel_status = "RUNNING"
    /\ root.delivery_status = "INVALID"
    /\ root.idx > 0
    /\ state = WAITING
    /\ feedback_message = FbRecovery

----------------------------------------------------------------------------
(* Properties of the Waiting gate *)

\* the tick of this step lets gate i succeed
GatePassed(i) ==
    /\ IsTick
    /\ last'.ticked
    /\ root'.id = root.id
    /\ i >= (IF root.delivery_status = "RUNNING" THEN root.idx ELSE 1)
    /\ \/ root'.delivery_status = "SUCCESS"
       \/ root'.delivery_status \in {"RUNNING", "FAILURE"} /\ root'.idx > i

\* the latch of a gate changes to true only in a go callback that finds the
\* gate RUNNING, and a go callback that finds it not RUNNING leaves it false
LatchScoped ==
    \A i \in Gates(root) :
        /\ (ChildStatus(root, i) # "RUNNING" /\ i \in root'.go_requested) =>
               ~go_button_callback
        /\ (root'.id = root.id /\ i \in root'.go_requested /\ i \notin root.go_requested) =>
               go_button_callback /\ ChildStatus(root, i) = "RUNNING"

\* C9 as stated: for every gate, a go signal while the gate is not RUNNING
\* leaves its latch false, and the gate succeeds only with its latch true.
C9_EveryGateWaitsForItsGo ==
    [][root' # root =>
           /\ LatchScoped
           /\ \A i \in Gates(root) : GatePassed(i) => i \in root.go_requested]_vars

\* C9 as amended: the same, for the gates without the
\* dont_wait_for_hoomans override.
C9_GateWaitsForItsGo ==
    [][root' # root =>
           /\ LatchScoped
           /\ \A i \in Gates(root) :
                  (GatePassed(i) /\ ~root.steps[i].skip) => i \in root.go_requested]_vars

C9_Witness ==
    /\ last.op = "tick"
    /\ ~dont_wait_for_hoomans
    /\ \E i, j \in Gates(root) :
           /\ i < j
           /\ i \in root.go_requested
           /\ ChildStatus(root, j) = "RUNNING"
           /\ j \notin root.go_requested

----------------------------------------------------------------------------
(* Properties of post_tock_update *)

\* C10 as stated: post_tock_update with no root leaves WAITING and the
\* recovery feedback.
C10_NullRootIsWaiting ==
    (last.op = "post_tock_update" /\ root.id = 0) =>
        state = WAITING /\ feedback_message = FbRecovery

\* C10 as amended: post_tock_update with no root leaves IDLE and "idling";
\* WAITING with the recovery feedback is left when the root is RUNNING and
\* its delivery sequence is not.
C10_NullRootIsIdle ==
    /\ (last.op = "post_tock_update" /\ root.id = 0) =>
           state = IDLE /\ feedback_message = FbIdling
    /\ (last.op = "post_tock_update" /\ root.id # 0 /\ root.status = "RUNNING"
            /\ root.delivery_status # "RUNNING") =>
           state = WAITING /\ feedback_message = FbRecovery

C10_Witness ==
    /\ last.op = "post_tock_update"
    /\ root.id = 0
    /\ old_goal_id # 0
    /\ state = IDLE
    /\ feedback_message = FbIdling

----------------------------------------------------------------------------
(* Properties of the recovery and of a failed planning *)

\* a go button step
IsGoSignal ==
    /\ pc' = pc
    /\ last' = last
    /\ root'.cancel_pressed = root.cancel_pressed
    /\ UNCHANGED <<incoming_goal, always_assume_initialised, doors, accepted_in>>

\* the recovery branch (after a cancellation or a delivery failure) is the
\* active branch of the root
RecoveryActive(r) ==
    /\ r.id # 0
    /\ r.status = "RUNNING"
    /\ r.delivery_status # "RUNNING"

\* C11: a goal submitted while the recovery branch is the active branch
\* (post_tock_update has left WAITING for it) does not make the next
\* pre_tick_update replace that root.
C11_RecoveryNotInterrupted ==
    [][(/\ IsPreTick
        /\ last.op = "set_goal"
        /\ RecoveryActive(root)
        /\ state = WAITING
        /\ feedback_message = FbRecovery) => root'.id = root.id]_vars

\* C12: a pre_tick_update whose planner call returns no children leaves
\* root, state, the traversed and remaining locations and old_goal_id
\* unchanged and clears incoming_goal; a pre_tick_update without a pending
\* goal does not call the planner and assembles nothing, and only an
\* accepting set_goal makes a goal pending.
C12_PlanningFailureAbsorbed ==
    [][/\ (IsPreTick /\ last'.consulted /\ ~last'.planned) =>
              /\ UNCHANGED <<root, state, traversed_locations, remaining_locations,
                             old_goal_id, locations>>
              /\ incoming_goal' = <<>>
       /\ (IsPreTick /\ incoming_goal = <<>>) =>
              /\ ~last'.consulted
              /\ root'.id \in {root.id, 0}
       /\ (incoming_goal = <<>> /\ incoming_goal' # <<>>) =>
              /\ IsSetGoal
              /\ last'.code = "SUCCESS"]_vars

C12_Witness ==
    /\ last.op = "pre_tick_update"
    /\ last.consulted
    /\ ~last.planned
    /\ incoming_goal = <<>>
    /\ root.id # 0
    /\ remaining_locations # <<>>

----------------------------------------------------------------------------
(* Frame properties *)

\* C13: state and feedback_message change only in post_tock_update and the
\* root reference changes only in pre_tick_update; set_goal leaves root,
\* state and feedback_message unchanged, pre_tick_update leaves state and
\* feedback_message unchanged, post_tock_update leaves the root and
\* incoming_goal unchanged.
C13_SingleWriter ==
    [][/\ (state' # state \/ feedback_message' # feedback_message) => IsPostTock
       /\ root'.id # root.id => IsPreTick
       /\ last'.op = "set_goal" =>
              UNCHANGED <<root.id, state, feedback_message>>
       /\ IsPreTick => UNCHANGED <<state, feedback_message>>
       /\ IsPostTock => UNCHANGED <<root, incoming_goal>>]_vars

C13_Witness ==
    /\ last.op = "set_goal"
    /\ last.code = "SUCCESS"
    /\ incoming_goal # <<>>
    /\ pc = "post"
    /\ state = WAITING
    /\ feedback_message = FbRecovery
    /\ root.id # 0

----------------------------------------------------------------------------
(* Progress of the Waiting gate *)

\* the tick of this step reaches the delivery sequence of the same root
DeliveryTicked ==
    /\ IsTick
    /\ root'.id = root.id
    /\ last'.ticked

\* C14: a gate is never FAILURE, and a gate with the override is never
\* RUNNING; without the override a RUNNING gate whose latch is false is
\* still RUNNING after its update, a go signal to a RUNNING gate sets its
\* latch, the latch of a RUNNING gate stays true as long as the gate is
\* RUNNING, and the update of a RUNNING gate whose latch is true succeeds.
C14_GateProgress ==
    [][/\ root' # root =>
              /\ \A i \in Gates(root') :
                     /\ ChildStatus(root', i) # "FAILURE"
                     /\ root'.steps[i].skip => ChildStatus(root', i) # "RUNNING"
              /\ root'.id = root.id =>
                     \A i \in Gates(root) :
                         /\ (DeliveryTicked /\ ChildStatus(root, i) = "RUNNING"
                                 /\ i \notin root.go_requested) =>
                                ChildStatus(root', i) = "RUNNING"
                         /\ (IsGoSignal /\ ChildStatus(root, i) = "RUNNING") =>
                                i \in root'.go_requested
                         /\ (i \in root.go_requested
                                 /\ ChildStatus(root, i) = "RUNNING"
                                 /\ ChildStatus(root', i) = "RUNNING") =>
                                i \in root'.go_requested
       /\ DeliveryTicked =>
              \A i \in Gates(root) :
                  (ChildStatus(root, i) = "RUNNING" /\ i \in root.go_requested) =>
                      ChildStatus(root', i) = "SUCCESS"]_vars

C14_Witness ==
    /\ last.op = "tick"
    /\ last.ticked
    /\ ~dont_wait_for_hoomans
    /\ \E i \in Gates(root) :
           /\ i \in root.go_requested
           /\ ChildStatus(root, i) = "SUCCESS"
           /\ root.delivery_status = "RUNNING"
           /\ root.idx = i + 1

----------------------------------------------------------------------------
(* Properties of the classification *)

\* a parking (or other non-travel, non-gate) step is the active step of the
\* RUNNING delivery sequence
OtherStepActive(r) ==
    /\ r.id # 0
    /\ r.status = "RUNNING"
    /\ r.delivery_status = "RUNNING"
    /\ r.steps[r.idx].kind \notin {"move", "wait"}

\* C15: a post_tock_update that finds the root RUNNING with a delivery step
\* active that is neither a travel step nor a gate leaves IDLE and "idling".
C15_OtherStepIsIdle ==
    [][(IsPostTock /\ OtherStepActive(root)) =>
           /\ state' = IDLE
           /\ feedback_message' = FbIdling]_vars

----------------------------------------------------------------------------
(* Properties of the planning and of the completion in pre_tick_update *)

\* C16 as stated: the include_parking_behaviours flag passed to the planner
\* is true exactly when no root exists or always_assume_initialised is false.
C16_ParkingIfEither ==
    [][(IsPreTick /\ last'.consulted) =>
           (last'.parking <=> (root.id = 0 \/ ~always_assume_initialised))]_vars

\* C16 as amended: the flag is true exactly when no root exists and
\* always_assume_initialised is false.
C16_ParkingIfBoth ==
    [][(IsPreTick /\ last'.consulted) =>
           (last'.parking <=> (root.id = 0 /\ ~always_assume_initialised))]_vars

C16_Witness ==
    /\ last.op = "pre_tick_update"
    /\ last.consulted
    /\ last.planned
    /\ ~last.parking
    /\ old_goal_id # 0
    /\ ~always_assume_initialised
    /\ root.steps[1].kind = "move"

\* C17: a pre_tick_update with no pending goal that finds the root SUCCESS
\* sets the planner's current location to the last traversed location (none
\* if nothing was traversed), records the root's id in old_goal_id, drops
\* the root and sets has_a_new_goal; a root that is FAILURE is kept; with no
\* root succeeded_on_last_tick is false and the state is IDLE, and only a
\* pre_tick_update with a pending goal gives a root again.
C17_GoalCompletion ==
    [][/\ (IsPreTick /\ incoming_goal = <<>> /\ root.id # 0
               /\ root.status = "SUCCESS") =>
              /\ current_location' =
                     IF traversed_locations # <<>>
                     THEN traversed_locations[Len(traversed_locations)]
                     ELSE "none"
              /\ old_goal_id' = root.id
              /\ root' = NoRoot
              /\ has_a_new_goal'
              /\ ~succeeded_on_last_tick'
       /\ (IsPreTick /\ incoming_goal = <<>> /\ root.id # 0
               /\ root.status = "FAILURE") =>
              /\ root' = root
              /\ ~has_a_new_goal'
       /\ (root.id = 0 /\ root'.id # 0) => (IsPreTick /\ incoming_goal # <<>>)
       /\ root'.id = 0 => (state' = IDLE /\ ~succeeded_on_last_tick')]_vars

C17_Witness ==
    /\ last.op = "post_tock_update"
    /\ root.id = 0
    /\ old_goal_id # 0
    /\ current_location = "L2"
    /\ traversed_locations # <<>>
    /\ ~has_a_new_goal
    /\ ~succeeded_on_last_tick
    /\ state = IDLE

\* C18: after every pre_tick_update has_a_new_goal is true exactly when that
\* call changed the root reference; in particular it is false after a call
\* whose planner call returned no children.
C18_FlagIffRootChanged ==
    [][IsPreTick => (has_a_new_goal' <=> root'.id # root.id)]_vars

----------------------------------------------------------------------------
(* Properties under interleaving with set_goal *)

\* C19 (specification SpecInterleaved, set_goal free to run between the
\* planner call and line 263 of pre_tick_update): the pending goal is
\* cleared only when it is the goal that was passed to the planner, that is
\* when no set_goal accepted a goal since the planner call.
C19_NoAcceptedGoalLost ==
    [][(incoming_goal # <<>> /\ incoming_goal' = <<>>) =>
           accepted_in = "none"]_vars

\* C20 (set_goal free to run between any two phases of a cycle): a
\* pre_tick_update that runs while the state is TRAVELLING does not replace
\* the root by the tree of a new goal.
C20_NoReplacementWhileTravelling ==
    [][(IsPreTick /\ state = TRAVELLING) => root'.id \in {root.id, 0}]_vars

====
